---- MODULE Spec2Model ----
(***************************************************************************)
(* State-machine model of the movie-db front end.                          *)
(*                                                                         *)
(*  - the search hook (useMovieSearch, both versions kept in               *)
(*    useMovieSearch.ts: the first one and the one with sort modes),       *)
(*    together with the debounce timer it is built on and the scroll       *)
(*    handler of the search page (useInfiniteScroll);                      *)
(*  - the watchlist persistence service (WatchlistService) over            *)
(*    localStorage.                                                        *)
(*                                                                         *)
(* A movie is represented by its id: the hook never looks at any other     *)
(* field of a movie when it accumulates pages.  A query is a sequence of   *)
(* characters, so that trim() is computed and not assumed.                 *)
(***************************************************************************)
EXTENDS Integers, Sequences, FiniteSets, TLC

(***************************************************************************)
(* Bounds of the model.                                                    *)
(***************************************************************************)
\* search requests started in one behaviour
MaxRequests == 2
\* movies in one upstream page
MaxPageLen == 2
\* largest total_pages the upstream reports
MaxPages == 2
\* clock ticks in one debounce window
TicksPerWindow == 2
\* calls of WatchlistService.add in one behaviour
MaxAdds == 3
\* largest page number a caller of the API client asks for
MaxApiPage == 2
\* movies in the results of one list response given to the adapter
MaxResults == 3
\* detail requests started in one behaviour
MaxDetailRequests == 3
\* review requests started in one behaviour
MaxReviewRequests == 3
\* largest total_pages of the reviews of a movie
MaxReviewPages == 3
\* category fetches started in one behaviour
MaxListRequests == 3
\* longest list of movies of a category
MaxListLen == 2
\* longest upstream cast list
MaxCast == 22

(***************************************************************************)
(* Program constants.                                                      *)
(***************************************************************************)
\* useDebouncedValue(query, 300)
DebounceWait == 300
\* throttleMs: 200 of the search page's useInfiniteScroll
ThrottleMs == 200
\* const CURRENT_VERSION = 1
CURRENT_VERSION == 1
\* cast.slice(0, 20)
CastLimit == 20

TickMs == DebounceWait \div TicksPerWindow

MovieIds == {1, 2}
Queries == { <<>>, <<" ">>, <<"a">>, <<"b">> }
SortOptions == {"relevance", "popularity", "rating", "date", "title"}
\* the sort modes the model selects: every mode but relevance is treated alike
SortInputs == {"relevance", "rating"}
Variants == {"first", "sort"}
\* what MovieRepository.searchMovies can throw: fetchAPI wraps every failure
Thrown == {"APIError"}
ErrorInstances == {"APIError"}

\* what localStorage can hold under STORAGE_KEY
NoValue == [kind |-> "null"]
EmptyString == [kind |-> "empty"]
Garbage == [kind |-> "garbage"]
\* the JSON literal null
NullValue == [null |-> TRUE]
\* the text "null"
JsonNull == [kind |-> "json", text |-> NullValue]
\* the text of an object that has no items array
JsonNoItems == [kind |-> "json", text |-> [version |-> "1"]]

Min(a, b) == IF a < b THEN a ELSE b
Max(a, b) == IF a > b THEN a ELSE b
Range(s) == { s[i] : i \in 1..Len(s) }

\* sequences over S of length at most n
SeqsUpTo(S, n) == UNION { [1..k -> S] : k \in 0..n }

\* the pages the upstream can return (ids may repeat within a page)
Pages == SeqsUpTo(MovieIds, MaxPageLen)
\* the results MovieRepository.searchMovies can resolve to; total_results is that
\* of an upstream whose pages are full
Results ==
  { [movies |-> p, totalPages |-> tp, totalResults |-> tp * MaxPageLen] :
      p \in Pages, tp \in 0..MaxPages }

VARIABLES
  variant,             \* which version of the hook runs
  mounted,             \* the component using the hook is mounted
  query,               \* useState('')
  debouncedQuery,      \* useDebouncedValue(query, 300)[0]
  timer,               \* ms left on the debounce timeout, -1 when none is set
  idle,                \* ms since query last changed (capped at DebounceWait)
  sinceTrigger,        \* Date.now() - lastTriggerRef.current (capped at ThrottleMs)
  movies, loading, error, currentPage, totalPages, totalResults, sortBy,
  isLoadingRef,        \* isLoadingRef.current
  abortControllerRef,  \* id of the controller in abortControllerRef.current, 0 = null
  aborted,             \* ids of the controllers whose signal is aborted
  inflight,            \* searchMovies calls awaiting their response
  nextReq,             \* number of requests started so far
  lsValue,             \* what localStorage holds under STORAGE_KEY
  storageBlocked,      \* localStorage access throws (storage disabled)
  wlClock,             \* the clock new Date() reads
  wlOp,                \* the last call of WatchlistService: [name, arg]
  wlRet,               \* what that call returned
  wlThrew,             \* that call threw
  storeItems,          \* items of useWatchlistStore
  storeCount,          \* count of useWatchlistStore
  storeOp,             \* the last action of the store that was called: [name, arg]
  storeRet,            \* what that action returned
  apiPhase,            \* fetchAPI: "idle", "fetching" (awaiting fetch) or "done"
  apiUrl,              \* the url fetchAPI passed to fetch
  apiResponse,         \* what fetch resolved to or rejected with
  apiResult,           \* what fetchAPI returned or threw
  listResponse,        \* the TMDBMovieListResponse given to MovieAdapter.toMovieList
  movieList,           \* the MovieList it returned
  detailMounted,       \* a component using useMovieDetail is mounted
  detailId,            \* the movieId useMovieDetail was last rendered with
  detailMovie, detailLoading, detailError,
  detailInflight,      \* getMovieDetail calls awaiting their response
  detailNext,          \* number of detail requests started so far
  reviewsMovieId,      \* the movieId useMovieReviews was last rendered with
  reviewsInitial,      \* its initialReviews, initialPage, initialTotalPages
  reviews, reviewsPage, reviewsTotalPages, reviewsLoading, reviewsError,
  reviewsInflight,     \* getMovieReviews calls awaiting their response
  reviewsNext,         \* number of review requests started so far
  reviewsLog,          \* the requests started since the state was last reset,
                       \* each with its outcome so far
  listMounted,         \* useMovieList has been rendered and its effect has run
  listCategory,        \* the category it was last rendered with
  listMovies, listLoading, listError,
  listInflight,        \* category fetches awaiting their response
  listLog,             \* the category fetches started so far, in order, each
                       \* with its outcome so far
  retried,             \* the query the search page's retry was last asked for,
                       \* pending until a request for it is started
  upstreamCast,        \* credits.cast of the detail response last adapted
  cast                 \* the cast of the adapted movie detail

hookVars == <<movies, loading, error, currentPage, totalPages, totalResults,
              isLoadingRef, abortControllerRef, aborted, inflight, nextReq>>
inputVars == <<variant, mounted, query, debouncedQuery, timer, idle, sinceTrigger, sortBy>>
searchVars == <<hookVars, inputVars>>
wlVars == <<lsValue, storageBlocked, wlClock, wlOp, wlRet, wlThrew>>
storeVars == <<storeItems, storeCount, storeOp, storeRet>>
apiVars == <<apiPhase, apiUrl, apiResponse, apiResult>>
adapterVars == <<listResponse, movieList>>
reviewsVars == <<reviewsMovieId, reviewsInitial, reviews, reviewsPage,
                 reviewsTotalPages, reviewsLoading, reviewsError, reviewsInflight,
                 reviewsNext, reviewsLog>>
castVars == <<upstreamCast, cast>>
pageVars == <<retried>>
listVars == <<listMounted, listCategory, listMovies, listLoading, listError,
              listInflight, listLog>>
detailVars == <<detailMounted, detailId, detailMovie, detailLoading, detailError,
                detailInflight, detailNext>>
vars == <<searchVars, wlVars, storeVars, apiVars, adapterVars, detailVars, reviewsVars, listVars, pageVars, castVars>>

(***************************************************************************)
(* The parts of the program a specification leaves out stay as they are    *)
(* before their first use.                                                 *)
(***************************************************************************)
NoUrl == [path |-> "", search |-> <<>>]
Nothing == [kind |-> "none"]

ClientIdle ==
  /\ apiPhase = "idle"
  /\ apiUrl = NoUrl
  /\ apiResponse = Nothing
  /\ apiResult = Nothing

AdapterIdle ==
  /\ listResponse = Nothing
  /\ movieList = Nothing

\* a JavaScript number: NaN, or the integer n
NaN == [nan |-> TRUE, n |-> 0]
Num(n) == [nan |-> FALSE, n |-> n]

\* useMovieDetail before its first render: useState(null), useState(true),
\* useState(null)
DetailIdle ==
  /\ detailMounted = FALSE
  /\ detailId = Num(0)
  /\ detailMovie = Nothing
  /\ detailLoading = TRUE
  /\ detailError = "null"
  /\ detailInflight = {}
  /\ detailNext = 0

\* the first render of useMovieReviews with what it is given for movieId:
\* useState(initialReviews), useState(initialPage), useState(initialTotalPages),
\* useState(false), useState(null)
ReviewsStart(movieId, initial) ==
  /\ reviewsMovieId = movieId
  /\ reviewsInitial = initial
  /\ reviews = initial.reviews
  /\ reviewsPage = initial.page
  /\ reviewsTotalPages = initial.totalPages
  /\ reviewsLoading = FALSE
  /\ reviewsError = "null"
  /\ reviewsInflight = {}
  /\ reviewsNext = 0
  /\ reviewsLog = <<>>

\* useMovieReviews(movieId) with its default parameters
ReviewsIdle == ReviewsStart(1, [reviews |-> <<>>, page |-> 1, totalPages |-> 1])

\* no detail response adapted yet
CastIdle == upstreamCast = <<>> /\ cast = <<>>

\* the search page before any retry
PageIdle == retried = [pending |-> FALSE, query |-> <<>>]

\* useMovieList before its first render: useState([]), useState(true),
\* useState(null)
ListIdle ==
  /\ listMounted = FALSE
  /\ listCategory = "popular"
  /\ listMovies = <<>>
  /\ listLoading = TRUE
  /\ listError = "null"
  /\ listInflight = {}
  /\ listLog = <<>>

(***************************************************************************)
(* Pure helpers of the hook.                                               *)
(***************************************************************************)
IsWhitespace(c) == c = " "

RECURSIVE TrimStart(_)
TrimStart(s) ==
  IF s = <<>> THEN <<>>
  ELSE IF IsWhitespace(Head(s)) THEN TrimStart(Tail(s)) ELSE s

RECURSIVE TrimEnd(_)
TrimEnd(s) ==
  IF s = <<>> THEN <<>>
  ELSE IF IsWhitespace(s[Len(s)]) THEN TrimEnd(SubSeq(s, 1, Len(s) - 1)) ELSE s

\* String.prototype.trim
Trim(s) == TrimEnd(TrimStart(s))

IsBlankNoTrim(searchQuery) == searchQuery = <<>>
\* !searchQuery || searchQuery.trim() === ''
IsBlank(searchQuery) == searchQuery = <<>> \/ Trim(searchQuery) = <<>>

\* Array.from(new Map(result.movies.map(m => [m.id, m])).values()):
\* one entry per id, at the position of the id's first occurrence
RECURSIVE UniqueById(_)
UniqueById(page) ==
  IF page = <<>> THEN <<>>
  ELSE LET init == UniqueById(SubSeq(page, 1, Len(page) - 1))
           last == page[Len(page)]
       IN IF last \in Range(init) THEN init ELSE Append(init, last)

AppendAll(prevMovies, page) == prevMovies \o page
\* setMovies(prev => [...prev, ...result.movies.filter(m => !existingIds.has(m.id))])
AppendNew(prevMovies, page) ==
  LET existingIds == Range(prevMovies)
  IN prevMovies \o SelectSeq(page, LAMBDA m : m \notin existingIds)

\* the movies committed by a successful response
CommitMovies(prevMovies, page, isLoadMore) ==
  IF isLoadMore
    THEN IF variant = "sort" THEN AppendNew(prevMovies, page) ELSE prevMovies \o page
    ELSE IF variant = "sort" THEN UniqueById(page) ELSE page

\* abortControllerRef.current?.signal.aborted
SignalAborted == abortControllerRef # 0 /\ abortControllerRef \in aborted

KeepPrevious == aborted
\* if (abortControllerRef.current) abortControllerRef.current.abort()
AbortPrevious ==
  IF abortControllerRef # 0 THEN aborted \cup {abortControllerRef} ELSE aborted

\* if (isLoadingRef.current) return   (only in the version with sort modes)
SkipWhileLoading == variant = "sort" /\ isLoadingRef

\* err instanceof Error ? err : new Error('Failed to search movies')
NormalizeError(err) == IF err \in ErrorInstances THEN err ELSE "Failed to search movies"

\* hasMore
HasMore ==
  IF variant = "sort"
    THEN sortBy = "relevance" /\ currentPage < totalPages
    ELSE currentPage < totalPages

SortNeverBlocks == FALSE
\* if (sortBy !== 'relevance') return
SortBlocksLoadMore == variant = "sort" /\ sortBy # "relevance"

LoadMoreBlockedNoPages ==
  (IF variant = "sort" THEN isLoadingRef ELSE loading) \/ debouncedQuery = <<>>
\* if (isLoadingRef.current || currentPage >= totalPages || !debouncedQuery) return
LoadMoreBlocked ==
  \/ (IF variant = "sort" THEN isLoadingRef ELSE loading)
  \/ currentPage >= totalPages
  \/ debouncedQuery = <<>>

(***************************************************************************)
(* performSearch, up to its await.                                         *)
(***************************************************************************)
NewRequest(searchQuery, page, isLoadMore) ==
  [id |-> nextReq + 1, query |-> Trim(searchQuery), page |-> page, isLoadMore |-> isLoadMore]

\* the call starts a request (used to keep nextReq within MaxRequests)
StartsRequest(searchQuery) == ~IsBlank(searchQuery) /\ ~SkipWhileLoading

PerformSearch(searchQuery, page, isLoadMore) ==
  IF IsBlank(searchQuery)
    THEN /\ movies' = <<>>
         /\ totalPages' = 0
         /\ totalResults' = 0
         /\ currentPage' = 1
         /\ loading' = FALSE
         /\ isLoadingRef' = FALSE
         /\ UNCHANGED <<error, abortControllerRef, aborted, inflight, nextReq>>
    ELSE IF SkipWhileLoading
      THEN UNCHANGED hookVars
      ELSE /\ aborted' = AbortPrevious
           /\ abortControllerRef' = nextReq + 1
           /\ nextReq' = nextReq + 1
           /\ loading' = TRUE
           /\ isLoadingRef' = (variant = "sort")
           /\ error' = "null"
           /\ inflight' = inflight \cup {NewRequest(searchQuery, page, isLoadMore)}
           /\ UNCHANGED <<movies, currentPage, totalPages, totalResults>>

(***************************************************************************)
(* performSearch, from its await on: the response or the failure of the    *)
(* request r arrives.                                                      *)
(***************************************************************************)
Finally ==
  /\ loading' = (IF mounted THEN FALSE ELSE loading)
  /\ isLoadingRef' = FALSE

RespondSuccess(r, result) ==
  /\ r \in inflight
  /\ inflight' = inflight \ {r}
  /\ IF SignalAborted
       THEN UNCHANGED <<movies, totalPages, totalResults, currentPage>>
       ELSE /\ movies' = CommitMovies(movies, result.movies, r.isLoadMore)
            /\ totalPages' = result.totalPages
            /\ totalResults' = result.totalResults
            /\ currentPage' = r.page
  /\ Finally
  /\ UNCHANGED <<error, abortControllerRef, aborted, nextReq, inputVars>>

RespondFailure(r, err) ==
  /\ r \in inflight
  /\ inflight' = inflight \ {r}
  /\ error' = (IF SignalAborted THEN error ELSE NormalizeError(err))
  /\ Finally
  /\ UNCHANGED <<movies, totalPages, totalResults, currentPage,
                 abortControllerRef, aborted, nextReq, inputVars>>

(***************************************************************************)
(* The debounced query.                                                    *)
(***************************************************************************)
\* useDebouncedValue's effect on a changed value: clear the timeout, set a new one
RestartTimer(q) == IF q # query THEN DebounceWait ELSE timer

SetQuery(q) ==
  /\ mounted
  /\ query' = q
  /\ timer' = RestartTimer(q)
  /\ idle' = (IF q # query THEN 0 ELSE idle)
  /\ UNCHANGED <<hookVars, variant, mounted, debouncedQuery, sinceTrigger, sortBy>>

\* time passes; a timeout that is due runs before more time passes
Tick ==
  /\ timer # 0
  /\ timer' = (IF timer > 0 THEN Max(timer - TickMs, 0) ELSE timer)
  /\ idle' = Min(idle + TickMs, DebounceWait)
  /\ sinceTrigger' = Min(sinceTrigger + TickMs, ThrottleMs)
  /\ UNCHANGED <<hookVars, variant, mounted, query, debouncedQuery, sortBy>>

\* setValue(q) of useDebouncedValue, and the effect on debouncedQuery, which
\* calls performSearch(debouncedQuery, 1, false) when the value changed
DebouncedQueryEffect(q) ==
  /\ debouncedQuery' = q
  /\ IF q # debouncedQuery
       THEN PerformSearch(q, 1, FALSE)
       ELSE UNCHANGED hookVars

\* the timeout of useDebouncedValue runs
DebounceFire ==
  /\ mounted
  /\ timer = 0
  /\ (query # debouncedQuery /\ StartsRequest(query)) => nextReq < MaxRequests
  /\ timer' = -1
  /\ DebouncedQueryEffect(query)
  /\ UNCHANGED <<variant, mounted, query, idle, sinceTrigger, sortBy>>

\* an edit of the query to q that is followed by no other edit for the whole
\* debounce window: setQuery(q), and DebounceWait later the timeout runs
QuietEdit(q) ==
  /\ mounted
  /\ timer = -1
  /\ q # query
  /\ (q # debouncedQuery /\ StartsRequest(q)) => nextReq < MaxRequests
  /\ query' = q
  /\ DebouncedQueryEffect(q)
  /\ UNCHANGED <<variant, mounted, timer, idle, sinceTrigger, sortBy>>

(***************************************************************************)
(* loadMore, the scroll handler, the sort mode, unmount.                   *)
(***************************************************************************)
LoadMoreCall ==
  IF SortBlocksLoadMore
    THEN UNCHANGED hookVars
    ELSE IF LoadMoreBlocked
      THEN UNCHANGED hookVars
      ELSE PerformSearch(debouncedQuery, currentPage + 1, TRUE)

LoadMoreStarts ==
  ~SortBlocksLoadMore /\ ~LoadMoreBlocked /\ StartsRequest(debouncedQuery)

LoadMore ==
  /\ mounted
  /\ LoadMoreStarts => nextReq < MaxRequests
  /\ LoadMoreCall
  /\ UNCHANGED inputVars

\* useInfiniteScroll.handleScroll with hasMore, isLoading: loading, onLoadMore: loadMore
HandleScroll(nearBottom) ==
  /\ mounted
  /\ variant = "sort"
  /\ LoadMoreStarts => nextReq < MaxRequests
  /\ IF loading \/ ~HasMore
       THEN UNCHANGED <<hookVars, sinceTrigger>>
       ELSE IF sinceTrigger < ThrottleMs
         THEN UNCHANGED <<hookVars, sinceTrigger>>
         ELSE IF nearBottom
           THEN sinceTrigger' = 0 /\ LoadMoreCall
           ELSE UNCHANGED <<hookVars, sinceTrigger>>
  /\ UNCHANGED <<variant, mounted, query, debouncedQuery, timer, idle, sortBy>>

SetSortBy(s) ==
  /\ mounted
  /\ variant = "sort"
  /\ sortBy' = s
  /\ UNCHANGED <<hookVars, variant, mounted, query, debouncedQuery, timer, idle, sinceTrigger>>

\* the cleanup effects of the hook and of useDebouncedValue
Unmount ==
  /\ mounted
  /\ mounted' = FALSE
  /\ aborted' = AbortPrevious
  /\ isLoadingRef' = FALSE
  /\ timer' = -1
  /\ UNCHANGED <<movies, loading, error, currentPage, totalPages, totalResults,
                 abortControllerRef, inflight, nextReq,
                 variant, query, debouncedQuery, idle, sinceTrigger, sortBy>>

(***************************************************************************)
(* Specification of the search hook.                                       *)
(***************************************************************************)
HookStart ==
  /\ mounted = TRUE
  /\ query = <<>>
  /\ debouncedQuery = <<>>
  /\ timer = -1
  /\ idle = DebounceWait
  /\ sinceTrigger = ThrottleMs
  /\ movies = <<>>
  /\ loading = FALSE
  /\ error = "null"
  /\ currentPage = 1
  /\ totalPages = 0
  /\ totalResults = 0
  /\ sortBy = "relevance"
  /\ isLoadingRef = FALSE
  /\ abortControllerRef = 0
  /\ aborted = {}
  /\ inflight = {}
  /\ nextReq = 0

SearchInit ==
  /\ variant \in Variants
  /\ HookStart
  /\ lsValue = NoValue
  /\ storageBlocked = FALSE
  /\ wlClock = 1
  /\ wlOp = [name |-> "none", arg |-> 0]
  /\ wlRet = FALSE
  /\ wlThrew = FALSE
  /\ storeItems = <<>>
  /\ storeCount = 0
  /\ storeOp = [name |-> "none", arg |-> 0]
  /\ storeRet = FALSE
  /\ ClientIdle
  /\ AdapterIdle
  /\ DetailIdle
  /\ ReviewsIdle
  /\ ListIdle
  /\ PageIdle
  /\ CastIdle

SearchNext ==
  \/ \E q \in Queries : SetQuery(q)
  \/ Tick
  \/ DebounceFire
  \/ LoadMore
  \/ \E nearBottom \in BOOLEAN : HandleScroll(nearBottom)
  \/ \E s \in SortInputs : SetSortBy(s)
  \/ \E r \in inflight, result \in Results : RespondSuccess(r, result)
  \/ \E r \in inflight, err \in Thrown : RespondFailure(r, err)
  \/ Unmount

Spec == SearchInit /\ [][SearchNext /\ UNCHANGED <<wlVars, storeVars, apiVars, adapterVars, detailVars, reviewsVars, listVars, pageVars, castVars>>]_vars

(***************************************************************************)
(* The search hook seen from its debounced query: every edit of the query  *)
(* is left alone for the debounce window, so the hook receives the values  *)
(* of the query one after the other; requests, responses, load-mores,      *)
(* scrolling, the sort mode and unmount interleave as in Spec.             *)
(***************************************************************************)
HookNext ==
  \/ \E q \in Queries : QuietEdit(q)
  \/ Tick
  \/ LoadMore
  \/ \E nearBottom \in BOOLEAN : HandleScroll(nearBottom)
  \/ \E s \in SortInputs : SetSortBy(s)
  \/ \E r \in inflight, result \in Results : RespondSuccess(r, result)
  \/ \E r \in inflight, err \in Thrown : RespondFailure(r, err)
  \/ Unmount

HookSpec == SearchInit /\ [][HookNext /\ UNCHANGED <<wlVars, storeVars, apiVars, adapterVars, detailVars, reviewsVars, listVars, pageVars, castVars>>]_vars

(***************************************************************************)
(* The search page's retry button over the search hook.                    *)
(***************************************************************************)
NoRetry == [pending |-> FALSE, query |-> <<>>]

\* a request for the retried query is started by this step
RetryServed ==
  /\ retried.pending
  /\ \E r \in inflight' \ inflight : r.query = Trim(retried.query)

\* the hook's own steps, seen from the page
RetryObserved ==
  retried' = IF RetryServed THEN NoRetry ELSE retried

\* SearchPage.handleRetry, behind the button SearchResult shows with an error:
\* if (query) setQuery(query)
HandleRetry ==
  /\ mounted
  /\ error # "null"
  /\ IF query # <<>>
       THEN SetQuery(query)
       ELSE UNCHANGED searchVars
  /\ retried' = [pending |-> TRUE, query |-> query]

RetryNext ==
  \/ HookNext /\ RetryObserved
  \/ HandleRetry

\* the steps that happen without the user: time passes, a request settles
RetryUnattended ==
  /\ \/ Tick
     \/ \E r \in inflight, result \in Results : RespondSuccess(r, result)
     \/ \E r \in inflight, err \in Thrown : RespondFailure(r, err)
  /\ RetryObserved
  /\ UNCHANGED <<wlVars, storeVars, apiVars, adapterVars, detailVars, reviewsVars, listVars, castVars>>

\* requests settle and time passes without the user; every other step is the
\* user's
RetrySpec ==
  /\ SearchInit
  /\ [][RetryNext /\ UNCHANGED <<wlVars, storeVars, apiVars, adapterVars, detailVars, reviewsVars, listVars, castVars>>]_vars
  /\ WF_vars(RetryUnattended)

(***************************************************************************)
(* WatchlistService over localStorage.                                     *)
(*                                                                         *)
(* The value under STORAGE_KEY is kept by what getItem and JSON.parse make *)
(* of it: no value, the empty string, text that is not JSON, or JSON text. *)
(* JSON text is kept as the tree of its members with every number in its   *)
(* decimal notation; JSON.parse turns the notation back into the number.   *)
(* The JSON literal null, as text and as value, is the record NullValue.   *)
(***************************************************************************)
\* new Date().toISOString() at clock reading t
ToISOString(t) == <<"ISO", t>>

\* getEmptyData()
GetEmptyData == [items |-> <<>>, version |-> CURRENT_VERSION]

IsNull(x) == "null" \in DOMAIN x

\* the numbers a document of the model can hold
Numbers == 0..(MaxAdds + Cardinality(MovieIds) + CURRENT_VERSION)

\* the decimal notation JSON.stringify writes for a number
NumberText(n) == ToString(n)
\* the number JSON.parse reads from a decimal notation
ParseNumber(text) == CHOOSE n \in Numbers : ToString(n) = text

StringifyItem(item) ==
  IF IsNull(item) THEN item
  ELSE [movieId |-> NumberText(item.movieId), addedAt |-> item.addedAt]
ParseItem(text) ==
  IF IsNull(text) THEN text
  ELSE [movieId |-> ParseNumber(text.movieId), addedAt |-> text.addedAt]

StringifyDataReversed(data) ==
  [k \in DOMAIN data |->
     IF k = "items"
       THEN [i \in 1..Len(data.items) |->
               StringifyItem(data.items[Len(data.items) + 1 - i])]
       ELSE NumberText(data[k])]
\* the text JSON.stringify(data) writes for a document
StringifyData(data) ==
  [k \in DOMAIN data |->
     IF k = "items"
       THEN [i \in 1..Len(data.items) |-> StringifyItem(data.items[i])]
       ELSE NumberText(data[k])]

\* JSON.stringify(data), as the value localStorage then holds
JSONStringify(data) == [kind |-> "json", text |-> StringifyData(data)]

\* JSON.parse(stored) of JSON text
JSONParse(text) ==
  IF IsNull(text) THEN text
  ELSE [k \in DOMAIN text |->
          IF k = "items"
            THEN [i \in 1..Len(text.items) |-> ParseItem(text.items[i])]
            ELSE ParseNumber(text[k])]

\* load() when localStorage holds stored
LoadFrom(stored) ==
  IF storageBlocked THEN GetEmptyData
  ELSE IF stored.kind \in {"null", "empty"} THEN GetEmptyData
  ELSE IF stored.kind = "garbage" THEN GetEmptyData
  ELSE LET data == JSONParse(stored.text)
       IN IF IsNull(data) THEN GetEmptyData
          ELSE IF "items" \notin DOMAIN data THEN GetEmptyData
          ELSE data

\* load()
Load == LoadFrom(lsValue)

\* save(data): the value localStorage holds afterwards
Save(data, writeFails) ==
  IF storageBlocked \/ writeFails THEN lsValue ELSE JSONStringify(data)

\* item.movieId === movieId, for an item that is not null
MovieIdIs(item, movieId) == ~IsNull(item) /\ item.movieId = movieId

\* items.some((item) => item.movieId === movieId) raises a TypeError: it comes
\* to a null item before it comes to an item with that movieId
SomeThrows(items, movieId) ==
  \E i \in 1..Len(items) :
    IsNull(items[i]) /\ \A j \in 1..(i - 1) : ~MovieIdIs(items[j], movieId)

ContainsMovieLastOnly(items, movieId) ==
  items # <<>> /\ MovieIdIs(items[Len(items)], movieId)
ContainsMovieFirstOnly(items, movieId) ==
  items # <<>> /\ MovieIdIs(items[1], movieId)
\* data.items.some((item) => item.movieId === movieId)
ContainsMovie(items, movieId) ==
  \E i \in 1..Len(items) : MovieIdIs(items[i], movieId)

\* items.filter(...) and items.map(...) read item.movieId of every item
EveryReadThrows(items) == \E i \in 1..Len(items) : IsNull(items[i])

\* data.items.filter((item) => item.movieId !== movieId)
FilterOut(items, movieId) ==
  SelectSeq(items, LAMBDA item : ~MovieIdIs(item, movieId))

\* data.items.unshift(newItem)
Unshift(item, items) == <<item>> \o items

\* add(movieId): the value localStorage holds afterwards, whether the call
\* threw, and what it returned
AddOutcome(movieId, writeFails) ==
  LET data == Load
  IN IF SomeThrows(data.items, movieId)
       THEN [stored |-> lsValue, threw |-> TRUE, ret |-> FALSE]
     ELSE IF ContainsMovie(data.items, movieId)
       THEN [stored |-> lsValue, threw |-> FALSE, ret |-> FALSE]
     ELSE LET newItem == [movieId |-> movieId, addedAt |-> ToISOString(wlClock)]
              newData == [data EXCEPT !.items = Unshift(newItem, data.items)]
          IN [stored |-> Save(newData, writeFails), threw |-> FALSE, ret |-> TRUE]

\* remove(movieId), likewise
RemoveOutcome(movieId, writeFails) ==
  LET data == Load
      originalLength == Len(data.items)
      kept == FilterOut(data.items, movieId)
  IN IF EveryReadThrows(data.items)
       THEN [stored |-> lsValue, threw |-> TRUE, ret |-> FALSE]
     ELSE IF Len(kept) = originalLength
       THEN [stored |-> lsValue, threw |-> FALSE, ret |-> FALSE]
     ELSE [stored |-> Save([data EXCEPT !.items = kept], writeFails),
           threw |-> FALSE, ret |-> TRUE]

\* a call of the service returns: wlRet is what it returned, or stays as it
\* was when the call threw
Returns(out) ==
  /\ lsValue' = out.stored
  /\ wlThrew' = out.threw
  /\ wlRet' = (IF out.threw THEN wlRet ELSE out.ret)

Add(movieId, writeFails) ==
  /\ wlClock <= MaxAdds
  /\ Returns(AddOutcome(movieId, writeFails))
  /\ wlClock' = wlClock + 1
  /\ wlOp' = [name |-> "add", arg |-> movieId]
  /\ UNCHANGED storageBlocked

Remove(movieId, writeFails) ==
  /\ Returns(RemoveOutcome(movieId, writeFails))
  /\ wlOp' = [name |-> "remove", arg |-> movieId]
  /\ UNCHANGED <<storageBlocked, wlClock>>

Has(movieId) ==
  /\ Returns([stored |-> lsValue,
              threw |-> SomeThrows(Load.items, movieId),
              ret |-> ContainsMovie(Load.items, movieId)])
  /\ wlOp' = [name |-> "has", arg |-> movieId]
  /\ UNCHANGED <<storageBlocked, wlClock>>

GetAll ==
  /\ Returns([stored |-> lsValue, threw |-> FALSE, ret |-> Load.items])
  /\ wlOp' = [name |-> "getAll", arg |-> 0]
  /\ UNCHANGED <<storageBlocked, wlClock>>

GetAllIds ==
  /\ Returns([stored |-> lsValue,
              threw |-> EveryReadThrows(Load.items),
              ret |-> IF EveryReadThrows(Load.items) THEN <<>>
                      ELSE [i \in 1..Len(Load.items) |-> Load.items[i].movieId]])
  /\ wlOp' = [name |-> "getAllIds", arg |-> 0]
  /\ UNCHANGED <<storageBlocked, wlClock>>

Count ==
  /\ Returns([stored |-> lsValue, threw |-> FALSE, ret |-> Len(Load.items)])
  /\ wlOp' = [name |-> "count", arg |-> 0]
  /\ UNCHANGED <<storageBlocked, wlClock>>

Clear(writeFails) ==
  /\ Returns([stored |-> Save(GetEmptyData, writeFails), threw |-> FALSE,
              ret |-> "undefined"])
  /\ wlOp' = [name |-> "clear", arg |-> 0]
  /\ UNCHANGED <<storageBlocked, wlClock>>

(***************************************************************************)
(* Specification of the watchlist service.                                 *)
(***************************************************************************)
\* what an earlier session, or another program, can have left under the key:
\* nothing, text load() rejects, or a watchlist document
InitialStored ==
  { NoValue, EmptyString, Garbage, JsonNull, JsonNoItems,
    JSONStringify(GetEmptyData),
    JSONStringify([items |-> <<>>]),
    JSONStringify([items |-> << [movieId |-> 1, addedAt |-> ToISOString(0)] >>,
                   version |-> CURRENT_VERSION]) }

ServiceStart ==
  /\ wlClock = 1
  /\ wlOp = [name |-> "none", arg |-> 0]
  /\ wlRet = FALSE
  /\ wlThrew = FALSE

\* the store is not part of the specification
StoreIdle ==
  /\ storeItems = <<>>
  /\ storeCount = 0
  /\ storeOp = [name |-> "none", arg |-> 0]
  /\ storeRet = FALSE

WatchlistInit ==
  /\ variant = "sort"
  /\ HookStart
  /\ lsValue \in InitialStored
  /\ storageBlocked \in BOOLEAN
  /\ ServiceStart
  /\ StoreIdle
  /\ ClientIdle
  /\ AdapterIdle
  /\ DetailIdle
  /\ ReviewsIdle
  /\ ListIdle
  /\ PageIdle
  /\ CastIdle

WatchlistNext ==
  \/ \E movieId \in MovieIds, writeFails \in BOOLEAN : Add(movieId, writeFails)
  \/ \E movieId \in MovieIds, writeFails \in BOOLEAN : Remove(movieId, writeFails)
  \/ \E movieId \in MovieIds : Has(movieId)
  \/ GetAll
  \/ GetAllIds
  \/ Count
  \/ \E writeFails \in BOOLEAN : Clear(writeFails)

WatchlistSpec ==
  WatchlistInit /\ [][WatchlistNext /\ UNCHANGED <<searchVars, storeVars, apiVars, adapterVars, detailVars, reviewsVars, listVars, pageVars, castVars>>]_vars

(***************************************************************************)
(* The service over a document whose items array holds a null: load()      *)
(* checks that items is an array and nothing else.                         *)
(***************************************************************************)
WronglyShaped ==
  LET item == [movieId |-> 1, addedAt |-> ToISOString(0)]
  IN { JSONStringify([items |-> its, version |-> CURRENT_VERSION]) :
         its \in { <<NullValue>>, <<item, NullValue>>, <<NullValue, item>> } }

TamperedInit ==
  /\ variant = "sort"
  /\ HookStart
  /\ lsValue \in InitialStored \cup WronglyShaped
  /\ storageBlocked \in BOOLEAN
  /\ ServiceStart
  /\ StoreIdle
  /\ ClientIdle
  /\ AdapterIdle
  /\ DetailIdle
  /\ ReviewsIdle
  /\ ListIdle
  /\ PageIdle
  /\ CastIdle

TamperedSpec ==
  TamperedInit /\ [][WatchlistNext /\ UNCHANGED <<searchVars, storeVars, apiVars, adapterVars, detailVars, reviewsVars, listVars, pageVars, castVars>>]_vars

(***************************************************************************)
(* useWatchlistStore: the store calls the service, nothing else does.      *)
(***************************************************************************)
\* addToWatchlist(movieId): the value localStorage holds afterwards, the items
\* and count of the store afterwards, and what the action returned
AddToWatchlistOutcome(movieId, writeFails) ==
  IF ContainsMovie(storeItems, movieId)
    THEN [stored |-> lsValue, items |-> storeItems, count |-> storeCount, ret |-> FALSE]
    ELSE LET out == AddOutcome(movieId, writeFails)
             newItems == LoadFrom(out.stored).items
         IN IF out.threw
              THEN [stored |-> out.stored, items |-> storeItems, count |-> storeCount,
                    ret |-> FALSE]
            ELSE IF out.ret
              THEN [stored |-> out.stored, items |-> newItems, count |-> Len(newItems),
                    ret |-> TRUE]
            ELSE [stored |-> out.stored, items |-> storeItems, count |-> storeCount,
                  ret |-> FALSE]

\* removeFromWatchlist(movieId), likewise
RemoveFromWatchlistOutcome(movieId, writeFails) ==
  LET out == RemoveOutcome(movieId, writeFails)
      newItems == LoadFrom(out.stored).items
  IN IF out.threw
       THEN [stored |-> out.stored, items |-> storeItems, count |-> storeCount,
             ret |-> FALSE]
     ELSE IF out.ret
       THEN [stored |-> out.stored, items |-> newItems, count |-> Len(newItems),
             ret |-> TRUE]
     ELSE [stored |-> out.stored, items |-> storeItems, count |-> storeCount,
           ret |-> FALSE]

\* toggleWatchlist(movieId): the action it delegates to, and its own result
ToggleWatchlistOutcome(movieId, writeFails) ==
  LET inWatchlist == ContainsMovie(storeItems, movieId)
  IN IF inWatchlist
       THEN [RemoveFromWatchlistOutcome(movieId, writeFails) EXCEPT !.ret = FALSE]
       ELSE [AddToWatchlistOutcome(movieId, writeFails) EXCEPT !.ret = TRUE]

\* clearWatchlist()
ClearWatchlistOutcome(writeFails) ==
  [stored |-> Save(GetEmptyData, writeFails), items |-> <<>>, count |-> 0,
   ret |-> "undefined"]

\* an action of the store returns
StoreReturns(out) ==
  /\ lsValue' = out.stored
  /\ storeItems' = out.items
  /\ storeCount' = out.count
  /\ storeRet' = out.ret
  /\ UNCHANGED <<storageBlocked, wlOp, wlRet, wlThrew>>

AddToWatchlist(movieId, writeFails) ==
  /\ wlClock <= MaxAdds
  /\ StoreReturns(AddToWatchlistOutcome(movieId, writeFails))
  /\ wlClock' = wlClock + 1
  /\ storeOp' = [name |-> "addToWatchlist", arg |-> movieId]

RemoveFromWatchlist(movieId, writeFails) ==
  /\ StoreReturns(RemoveFromWatchlistOutcome(movieId, writeFails))
  /\ storeOp' = [name |-> "removeFromWatchlist", arg |-> movieId]
  /\ UNCHANGED wlClock

ToggleWatchlist(movieId, writeFails) ==
  /\ wlClock <= MaxAdds
  /\ StoreReturns(ToggleWatchlistOutcome(movieId, writeFails))
  /\ wlClock' = wlClock + 1
  /\ storeOp' = [name |-> "toggleWatchlist", arg |-> movieId]

ClearWatchlist(writeFails) ==
  /\ StoreReturns(ClearWatchlistOutcome(writeFails))
  /\ storeOp' = [name |-> "clearWatchlist", arg |-> 0]
  /\ UNCHANGED wlClock

IsInWatchlist(movieId) ==
  /\ StoreReturns([stored |-> lsValue, items |-> storeItems, count |-> storeCount,
                   ret |-> ContainsMovie(storeItems, movieId)])
  /\ storeOp' = [name |-> "isInWatchlist", arg |-> movieId]
  /\ UNCHANGED wlClock

\* const initialItems = loadInitialItems() when the store is created
StoreInit ==
  /\ variant = "sort"
  /\ HookStart
  /\ lsValue \in InitialStored
  /\ storageBlocked \in BOOLEAN
  /\ ServiceStart
  /\ storeItems = Load.items
  /\ storeCount = Len(Load.items)
  /\ storeOp = [name |-> "none", arg |-> 0]
  /\ storeRet = FALSE
  /\ ClientIdle
  /\ AdapterIdle
  /\ DetailIdle
  /\ ReviewsIdle
  /\ ListIdle
  /\ PageIdle
  /\ CastIdle

StoreNext ==
  \/ \E movieId \in MovieIds, writeFails \in BOOLEAN : AddToWatchlist(movieId, writeFails)
  \/ \E movieId \in MovieIds, writeFails \in BOOLEAN : RemoveFromWatchlist(movieId, writeFails)
  \/ \E movieId \in MovieIds, writeFails \in BOOLEAN : ToggleWatchlist(movieId, writeFails)
  \/ \E writeFails \in BOOLEAN : ClearWatchlist(writeFails)
  \/ \E movieId \in MovieIds : IsInWatchlist(movieId)

StoreSpec == StoreInit /\ [][StoreNext /\ UNCHANGED <<searchVars, apiVars, adapterVars, detailVars, reviewsVars, listVars, pageVars, castVars>>]_vars

(***************************************************************************)
(* The API client: fetchAPI and the methods of tmdbClient.                 *)
(***************************************************************************)
\* the methods of tmdbClient and the path each passes to fetchAPI
ClientPaths ==
  [getNowPlaying |-> "/movie/now_playing",
   getPopular |-> "/movie/popular",
   getTopRated |-> "/movie/top_rated",
   getUpcoming |-> "/movie/upcoming"]

\* const language = 'en-US'
Language == "en-US"

\* buildUrl(path, params): a parameter whose value is '' is left out
BuildUrl(path, params) ==
  [path |-> path, search |-> SelectSeq(params, LAMBDA kv : kv[2] # "")]

\* what fetch can resolve to
Statuses == {200, 201, 299, 300, 304, 404, 500}
StatusTexts == {"", "OK", "Not Found"}
Bodies == { [kind |-> "json", data |-> [results |-> <<>>, page |-> 1]],
            [kind |-> "invalid", message |-> "Unexpected end of JSON input"] }
Responses ==
  { [kind |-> "response", status |-> st, statusText |-> tx, body |-> b] :
      st \in Statuses, tx \in StatusTexts, b \in Bodies }
\* what fetch can reject with; a caller can throw anything
Rejections ==
  { [kind |-> "rejection", isError |-> TRUE, message |-> "Failed to fetch"],
    [kind |-> "rejection", isError |-> FALSE, message |-> ""] }

ResponseOkBelow400(status) == status \in 200..399
\* response.ok
ResponseOk(status) == status \in 200..299

\* new APIError(message, status, statusText)
NewAPIError(message, status, statusText) ==
  [name |-> "APIError", message |-> message, status |-> status,
   statusText |-> statusText]
\* new APIError(message): status and statusText are undefined
NewAPIErrorOf(message) == [name |-> "APIError", message |-> message]

Throws(err) == [kind |-> "thrown", error |-> err]
Returned(data) == [kind |-> "returned", data |-> data]

\* fetchAPI after fetch resolved to response
OnResponse(response) ==
  IF ~ResponseOk(response.status)
    THEN Throws(NewAPIError("API request failed: " \o response.statusText,
                             response.status, response.statusText))
    ELSE IF response.body.kind = "invalid"
      THEN Throws(NewAPIErrorOf(response.body.message))
      ELSE Returned(response.body.data)

\* fetchAPI after fetch rejected
OnRejection(rejection) ==
  Throws(NewAPIErrorOf(IF rejection.isError THEN rejection.message
                        ELSE "Unknown error occurred"))

\* a method of tmdbClient is called: fetchAPI runs up to await fetch(...)
CallClient(method, page) ==
  /\ apiPhase \in {"idle", "done"}
  /\ apiPhase' = "fetching"
  /\ apiUrl' = BuildUrl(ClientPaths[method],
                        << <<"page", ToString(page)>>, <<"language", Language>> >>)
  /\ apiResponse' = Nothing
  /\ apiResult' = Nothing

FetchResolves(response) ==
  /\ apiPhase = "fetching"
  /\ apiPhase' = "done"
  /\ apiResponse' = response
  /\ apiResult' = OnResponse(response)
  /\ UNCHANGED apiUrl

FetchRejects(rejection) ==
  /\ apiPhase = "fetching"
  /\ apiPhase' = "done"
  /\ apiResponse' = rejection
  /\ apiResult' = OnRejection(rejection)
  /\ UNCHANGED apiUrl

ClientInit ==
  /\ variant = "sort"
  /\ HookStart
  /\ lsValue = NoValue
  /\ storageBlocked = FALSE
  /\ ServiceStart
  /\ StoreIdle
  /\ ClientIdle
  /\ AdapterIdle
  /\ DetailIdle
  /\ ReviewsIdle
  /\ ListIdle
  /\ PageIdle
  /\ CastIdle

ClientNext ==
  \/ \E method \in DOMAIN ClientPaths, page \in 1..MaxApiPage : CallClient(method, page)
  \/ \E response \in Responses : FetchResolves(response)
  \/ \E rejection \in Rejections : FetchRejects(rejection)

ClientSpec ==
  ClientInit /\ [][ClientNext /\ UNCHANGED <<searchVars, wlVars, storeVars, adapterVars, detailVars, reviewsVars, listVars, pageVars, castVars>>]_vars

(***************************************************************************)
(* MovieAdapter.toMovieList, the adapter that drops movies without poster. *)
(* A TMDBMovie is kept by its id and its poster_path, which is null or a   *)
(* string.                                                                 *)
(***************************************************************************)
\* import.meta.env.VITE_TMDB_IMAGE_BASE_URL
ImageBaseUrl == "https://image.tmdb.org/t/p"

PosterPaths == { NullValue, [str |-> "/a.jpg"] }
TMDBMovies == { [id |-> id, poster_path |-> pp] : id \in MovieIds, pp \in PosterPaths }

\* the list responses the adapter is given
ListResponses ==
  { [page |-> pg, results |-> rs, total_pages |-> tp, total_results |-> tr] :
      pg \in 1..MaxApiPage, rs \in SeqsUpTo(TMDBMovies, MaxResults),
      tp \in {0, 1, 5}, tr \in {0, 100} }

\* `${value}` of a string or of null
TemplateText(value) == IF IsNull(value) THEN "null" ELSE value.str

\* toMovie(movie), the version toMovieList uses
ToMovie(movie) ==
  [id |-> movie.id, posterUrl |-> ImageBaseUrl \o TemplateText(movie.poster_path)]

HasPosterAlways(movie) == TRUE
\* (movie) => movie.poster_path !== null
HasPoster(movie) == ~IsNull(movie.poster_path)

\* toMovieList(response)
ToMovieListOf(response) ==
  LET filtered == SelectSeq(response.results, HasPoster)
  IN [page |-> response.page,
      movies |-> [i \in 1..Len(filtered) |-> ToMovie(filtered[i])],
      totalPages |-> response.total_pages,
      totalResults |-> response.total_results]

ToMovieList ==
  /\ movieList = Nothing
  /\ movieList' = ToMovieListOf(listResponse)
  /\ UNCHANGED listResponse

AdapterInit ==
  /\ variant = "sort"
  /\ HookStart
  /\ lsValue = NoValue
  /\ storageBlocked = FALSE
  /\ ServiceStart
  /\ StoreIdle
  /\ ClientIdle
  /\ listResponse \in ListResponses
  /\ movieList = Nothing
  /\ DetailIdle
  /\ ReviewsIdle
  /\ ListIdle
  /\ PageIdle
  /\ CastIdle

AdapterNext == ToMovieList

AdapterSpec ==
  AdapterInit /\ [][AdapterNext /\ UNCHANGED <<searchVars, wlVars, storeVars, apiVars, detailVars, reviewsVars, listVars, pageVars, castVars>>]_vars

(***************************************************************************)
(* useMovieDetail.                                                         *)
(***************************************************************************)
\* the ids the detail page passes: Number(id) of the route parameter
DetailIds == { NaN, Num(-1), Num(0), Num(1), Num(2) }

InvalidIdZeroOnly(movieId) == movieId.nan \/ movieId.n = 0
\* !movieId || movieId <= 0
InvalidId(movieId) == (movieId.nan \/ movieId.n = 0) \/ (~movieId.nan /\ movieId.n <= 0)

\* err instanceof Error ? err : new Error('Unknown error')
DetailError(err) == IF err \in ErrorInstances THEN err ELSE "Unknown error"

\* fetchMovieDetail() up to its await, for the movieId of the render
FetchMovieDetail(movieId) ==
  IF InvalidId(movieId)
    THEN /\ detailError' = "Invalid movie ID"
         /\ detailLoading' = FALSE
         /\ UNCHANGED <<detailMovie, detailInflight, detailNext>>
    ELSE /\ detailLoading' = TRUE
         /\ detailError' = "null"
         /\ detailInflight' = detailInflight \cup
                                {[id |-> detailNext + 1, movieId |-> movieId]}
         /\ detailNext' = detailNext + 1
         /\ UNCHANGED detailMovie

\* the hook is rendered with movieId for the first time, or with another
\* movieId than before: the effect on [movieId] runs
UseMovieDetail(movieId) ==
  /\ ~detailMounted \/ movieId # detailId
  /\ ~InvalidId(movieId) => detailNext < MaxDetailRequests
  /\ detailMounted' = TRUE
  /\ detailId' = movieId
  /\ FetchMovieDetail(movieId)

\* getMovieDetail of request r resolved: setMovie(result), then finally
DetailResolves(r) ==
  /\ r \in detailInflight
  /\ detailInflight' = detailInflight \ {r}
  /\ detailMovie' = [kind |-> "detail", id |-> r.movieId]
  /\ detailLoading' = FALSE
  /\ UNCHANGED <<detailMounted, detailId, detailError, detailNext>>

\* getMovieDetail of request r rejected: the catch block, then finally
DetailRejects(r, err) ==
  /\ r \in detailInflight
  /\ detailInflight' = detailInflight \ {r}
  /\ detailError' = DetailError(err)
  /\ detailMovie' = Nothing
  /\ detailLoading' = FALSE
  /\ UNCHANGED <<detailMounted, detailId, detailNext>>

DetailInit ==
  /\ variant = "sort"
  /\ HookStart
  /\ lsValue = NoValue
  /\ storageBlocked = FALSE
  /\ ServiceStart
  /\ StoreIdle
  /\ ClientIdle
  /\ AdapterIdle
  /\ DetailIdle
  /\ ReviewsIdle
  /\ ListIdle
  /\ PageIdle
  /\ CastIdle

DetailNext ==
  \/ \E movieId \in DetailIds : UseMovieDetail(movieId)
  \/ \E r \in detailInflight : DetailResolves(r)
  \/ \E r \in detailInflight, err \in Thrown : DetailRejects(r, err)

DetailSpec ==
  DetailInit /\ [][DetailNext /\ UNCHANGED <<searchVars, wlVars, storeVars, apiVars, adapterVars, reviewsVars, listVars, pageVars, castVars>>]_vars

(***************************************************************************)
(* useMovieReviews.  A review is kept by the movie and the page it belongs *)
(* to; a page of reviews holds one review.                                 *)
(***************************************************************************)
ReviewPage(movieId, page) == << [movie |-> movieId, page |-> page] >>

\* what the detail page passes for a movie: the first page of reviews embedded
\* in the detail response (or no reviews), page 1 and the total number of pages
InitialsOf(movieId) ==
  { [reviews |-> rs, page |-> 1, totalPages |-> tp] :
      rs \in { <<>>, ReviewPage(movieId, 1) }, tp \in 0..MaxReviewPages }

\* const hasMore = currentPage < totalPages
ReviewsHasMore == reviewsPage < reviewsTotalPages

ReviewsBlockedWhileLoading == reviewsLoading
\* if (loading || !hasMore) return
ReviewsBlocked == reviewsLoading \/ ~ReviewsHasMore

\* err instanceof Error ? err : new Error('Failed to load reviews')
ReviewsErrorOf(err) == IF err \in ErrorInstances THEN err ELSE "Failed to load reviews"

\* the outcome of the request with this id is entered in the log, when the
\* request is among those started since the last reset
Logged(id, outcome) ==
  [i \in 1..Len(reviewsLog) |->
     IF reviewsLog[i].id = id THEN [reviewsLog[i] EXCEPT !.outcome = outcome]
     ELSE reviewsLog[i]]

\* loadMore() up to its await
ReviewsLoadMore ==
  /\ ~ReviewsBlocked => reviewsNext < MaxReviewRequests
  /\ IF ReviewsBlocked
       THEN UNCHANGED <<reviewsLoading, reviewsError, reviewsInflight, reviewsNext,
                        reviewsLog>>
       ELSE LET nextPage == reviewsPage + 1
                r == [id |-> reviewsNext + 1, movieId |-> reviewsMovieId,
                      page |-> nextPage]
            IN /\ reviewsLoading' = TRUE
               /\ reviewsError' = "null"
               /\ reviewsInflight' = reviewsInflight \cup {r}
               /\ reviewsNext' = reviewsNext + 1
               /\ reviewsLog' = Append(reviewsLog,
                                       [id |-> r.id, movieId |-> r.movieId,
                                        page |-> r.page, outcome |-> "pending"])
  /\ UNCHANGED <<reviewsMovieId, reviewsInitial, reviews, reviewsPage,
                 reviewsTotalPages>>

\* getMovieReviews of request r resolved with the page asked for
ReviewsResolve(r, totalPages_) ==
  /\ r \in reviewsInflight
  /\ reviewsInflight' = reviewsInflight \ {r}
  /\ reviews' = reviews \o ReviewPage(r.movieId, r.page)
  /\ reviewsPage' = r.page
  /\ reviewsTotalPages' = totalPages_
  /\ reviewsLoading' = FALSE
  /\ reviewsLog' = Logged(r.id, "loaded")
  /\ UNCHANGED <<reviewsMovieId, reviewsInitial, reviewsError, reviewsNext>>

\* getMovieReviews of request r rejected
ReviewsReject(r, err) ==
  /\ r \in reviewsInflight
  /\ reviewsInflight' = reviewsInflight \ {r}
  /\ reviewsError' = ReviewsErrorOf(err)
  /\ reviewsLoading' = FALSE
  /\ reviewsLog' = Logged(r.id, "failed")
  /\ UNCHANGED <<reviewsMovieId, reviewsInitial, reviews, reviewsPage,
                 reviewsTotalPages, reviewsNext>>

\* the hook is rendered with another movieId or other initial values: the
\* effect on [movieId, initialReviews, initialPage, initialTotalPages] runs
ReviewsRender(movieId, initial) ==
  /\ <<movieId, initial>> # <<reviewsMovieId, reviewsInitial>>
  /\ reviewsMovieId' = movieId
  /\ reviewsInitial' = initial
  /\ reviews' = initial.reviews
  /\ reviewsPage' = initial.page
  /\ reviewsTotalPages' = initial.totalPages
  /\ reviewsError' = "null"
  /\ reviewsLog' = <<>>
  /\ UNCHANGED <<reviewsLoading, reviewsInflight, reviewsNext>>

ReviewsInit ==
  /\ variant = "sort"
  /\ HookStart
  /\ lsValue = NoValue
  /\ storageBlocked = FALSE
  /\ ServiceStart
  /\ StoreIdle
  /\ ClientIdle
  /\ AdapterIdle
  /\ DetailIdle
  /\ \E movieId \in MovieIds : \E initial \in InitialsOf(movieId) :
       ReviewsStart(movieId, initial)
  /\ ListIdle
  /\ PageIdle
  /\ CastIdle

ReviewsNext ==
  \/ ReviewsLoadMore
  \/ \E r \in reviewsInflight, tp \in 0..MaxReviewPages : ReviewsResolve(r, tp)
  \/ \E r \in reviewsInflight, err \in Thrown : ReviewsReject(r, err)
  \/ \E movieId \in MovieIds : \E initial \in InitialsOf(movieId) :
       ReviewsRender(movieId, initial)

ReviewsSpec ==
  ReviewsInit /\ [][ReviewsNext /\ UNCHANGED <<searchVars, wlVars, storeVars, apiVars, adapterVars, detailVars, listVars, pageVars, castVars>>]_vars

(***************************************************************************)
(* useMovieList.  A movie of a list is kept by its category and its rank.  *)
(***************************************************************************)
MovieCategories == {"popular", "nowPlaying", "topRated", "upcoming"}

\* result.movies of the repository call of a category
CategoryLists(category) ==
  { [i \in 1..k |-> [category |-> category, rank |-> i]] : k \in 0..MaxListLen }

\* err instanceof Error ? err : new Error('Unknown error')
ListErrorOf(err) == IF err \in ErrorInstances THEN err ELSE "Unknown error"

ListFinallySkipped == UNCHANGED listLoading
\* finally { setLoading(false) }
ListFinally == listLoading' = FALSE

\* the outcome of the fetch with this id is entered in the log
ListLogged(id, outcome, result) ==
  [i \in 1..Len(listLog) |->
     IF listLog[i].id = id
       THEN [listLog[i] EXCEPT !.outcome = outcome, !.result = result]
       ELSE listLog[i]]

\* the hook is rendered with category for the first time, or with another
\* category than before: the effect on [category] runs fetchMovies() up to its
\* await
UseMovieList(category) ==
  /\ ~listMounted \/ category # listCategory
  /\ Len(listLog) < MaxListRequests
  /\ listMounted' = TRUE
  /\ listCategory' = category
  /\ listLoading' = TRUE
  /\ listError' = "null"
  /\ LET r == [id |-> Len(listLog) + 1, category |-> category]
     IN /\ listInflight' = listInflight \cup {r}
        /\ listLog' = Append(listLog, [id |-> r.id, category |-> r.category,
                                       outcome |-> "pending", result |-> <<>>])
  /\ UNCHANGED listMovies

\* the repository call of fetch r resolved: setMovies(result.movies), finally
ListResolves(r, result) ==
  /\ r \in listInflight
  /\ listInflight' = listInflight \ {r}
  /\ listMovies' = result
  /\ ListFinally
  /\ listLog' = ListLogged(r.id, "loaded", result)
  /\ UNCHANGED <<listMounted, listCategory, listError>>

\* the repository call of fetch r rejected: the catch block, then finally
ListRejects(r, err) ==
  /\ r \in listInflight
  /\ listInflight' = listInflight \ {r}
  /\ listError' = ListErrorOf(err)
  /\ ListFinally
  /\ listLog' = ListLogged(r.id, "failed", <<>>)
  /\ UNCHANGED <<listMounted, listCategory, listMovies>>

ListInit ==
  /\ variant = "sort"
  /\ HookStart
  /\ lsValue = NoValue
  /\ storageBlocked = FALSE
  /\ ServiceStart
  /\ StoreIdle
  /\ ClientIdle
  /\ AdapterIdle
  /\ DetailIdle
  /\ ReviewsIdle
  /\ ListIdle
  /\ PageIdle
  /\ CastIdle

ListNext ==
  \/ \E category \in MovieCategories : UseMovieList(category)
  \/ \E r \in listInflight : \E result \in CategoryLists(r.category) :
       ListResolves(r, result)
  \/ \E r \in listInflight, err \in Thrown : ListRejects(r, err)

ListSpec ==
  ListInit /\ [][ListNext /\ UNCHANGED <<searchVars, wlVars, storeVars, apiVars, adapterVars, detailVars, reviewsVars, pageVars, castVars>>]_vars

(***************************************************************************)
(* MovieAdapter.toCast.  A cast member is kept by its id and its order.    *)
(***************************************************************************)
\* an upstream cast list whose members have these order fields
CastOf(orders) == [i \in 1..Len(orders) |-> [id |-> i, order |-> orders[i]]]

\* upstream cast lists: in billing order, in reverse billing order, and in
\* billing order but for the members at k and k + 1
CastLists ==
  { CastOf([i \in 1..n |-> i - 1]) : n \in 0..MaxCast }
    \cup { CastOf([i \in 1..n |-> n - i]) : n \in 0..MaxCast }
    \cup UNION { { CastOf([i \in 1..n |->
                            IF i = k THEN k ELSE IF i = k + 1 THEN k - 1 ELSE i - 1])
                     : k \in 1..(n - 1) } : n \in 0..MaxCast }

\* cast.slice(0, 20)
Slice(members) == SubSeq(members, 1, Min(Len(members), CastLimit))

\* cast.slice(0, 20).map((member) => ({ id, name, character, profileUrl, order }))
ToCastOf(members) ==
  LET kept == Slice(members)
  IN [i \in 1..Len(kept) |-> [id |-> kept[i].id, order |-> kept[i].order]]

\* toMovieDetail: cast: this.toCast(movie.credits.cast)
ToCast(members) ==
  /\ upstreamCast' = members
  /\ cast' = ToCastOf(members)

CastInit ==
  /\ variant = "sort"
  /\ HookStart
  /\ lsValue = NoValue
  /\ storageBlocked = FALSE
  /\ ServiceStart
  /\ StoreIdle
  /\ ClientIdle
  /\ AdapterIdle
  /\ DetailIdle
  /\ ReviewsIdle
  /\ ListIdle
  /\ PageIdle
  /\ CastIdle

CastNext == \E members \in CastLists : ToCast(members)

CastSpec ==
  CastInit /\ [][CastNext /\ UNCHANGED <<searchVars, wlVars, storeVars, apiVars, adapterVars, detailVars, reviewsVars, listVars, pageVars>>]_vars

(***************************************************************************)
(* Claims about the search hook.                                           *)
(***************************************************************************)
NoDuplicates(s) == \A i, j \in 1..Len(s) : s[i] = s[j] => i = j
WhitespaceOnly(q) == \A i \in 1..Len(q) : q[i] = " "
Started == inflight' \ inflight
Answered == inflight \ inflight'

\* C1: the late response or failure of a request whose controller has been
\* aborted changes none of movies, totalPages, totalResults, currentPage, error.
C1_CancelledResponseDiscarded ==
  [][ \A r \in Answered :
        r.id \in aborted =>
          UNCHANGED <<movies, totalPages, totalResults, currentPage, error>> ]_vars

\* C2: whenever the debounced query changes to a non-empty value, a page-1
\* fetch for that value is started, and every request that was in flight is
\* cancelled, also when a request is still in flight.
C2_DebouncedChangeStartsFetch ==
  [][ (debouncedQuery' # debouncedQuery /\ ~WhitespaceOnly(debouncedQuery')) =>
        /\ \E r \in Started :
             r.query = Trim(debouncedQuery') /\ r.page = 1 /\ ~r.isLoadMore
        /\ \A r \in inflight : r.id \in aborted' ]_vars

\* C3: at every moment at most one request is in flight with a controller
\* that has not been aborted.
C3_AtMostOneLiveRequest ==
  Cardinality({ r \in inflight : r.id \notin aborted }) <= 1

\* two requests are in flight at once, the older one cancelled
C3_Witness ==
  \E r1, r2 \in inflight : r1.id < r2.id /\ r1.id \in aborted /\ r2.id \notin aborted

\* C4: the accumulated movies never hold two entries with the same id
\* (hook with sort modes, the version that de-duplicates).
C4_NoDuplicateIds == variant = "sort" => NoDuplicates(movies)

\* C5: loadMore starts a fetch only when loading is false, currentPage <
\* totalPages and the debounced query is non-empty, and then of page
\* currentPage + 1; when one of the three fails, a call of loadMore starts no
\* request and changes no state of the hook.
C5_LoadMoreGuarded ==
  [][ /\ \A r \in Started :
           r.isLoadMore =>
             /\ ~loading
             /\ currentPage < totalPages
             /\ debouncedQuery # <<>>
             /\ r.page = currentPage + 1
      /\ (LoadMore /\ (loading \/ currentPage >= totalPages \/ debouncedQuery = <<>>)) =>
           UNCHANGED hookVars ]_vars

\* a load-more request for the next page is in flight
C5_Witness ==
  \E r \in inflight : r.isLoadMore /\ r.page = currentPage + 1 /\ loading

\* C6: a load-more is started, with hasMore true, for page currentPage + 1;
\* when it succeeds the movies loaded so far keep their positions, the movies
\* of the new page whose id is not loaded yet follow them in upstream order,
\* and currentPage becomes the page that was asked for (hook with sort modes).
C6_LoadMoreAppendsNextPage ==
  [][ variant = "sort" =>
        /\ \A r \in Started : r.isLoadMore => currentPage < totalPages /\ r.page = currentPage + 1
        /\ \A r \in Answered :
             (r.isLoadMore /\ mounted) =>
               \A result \in Results :
                 RespondSuccess(r, result) =>
                   /\ Len(movies') >= Len(movies)
                   /\ SubSeq(movies', 1, Len(movies)) = movies
                   /\ SubSeq(movies', Len(movies) + 1, Len(movies')) =
                        SelectSeq(result.movies, LAMBDA m : m \notin Range(movies))
                   /\ currentPage' = r.page ]_vars

\* page 2 has been appended to the movies of page 1
C6_Witness ==
  variant = "sort" /\ currentPage = 2 /\ totalPages = 2 /\ movies = <<1, 2>> /\ inflight = {}

\* C7: when the debounced query becomes empty or whitespace-only, movies is
\* emptied, totalPages and totalResults become 0, currentPage becomes 1, and
\* no request is started.
C7_BlankQueryClears ==
  [][ (debouncedQuery' # debouncedQuery /\ WhitespaceOnly(debouncedQuery')) =>
        /\ movies' = <<>>
        /\ totalPages' = 0
        /\ totalResults' = 0
        /\ currentPage' = 1
        /\ Started = {}
        /\ nextReq' = nextReq ]_vars

\* results were loaded and the query was then cleared to whitespace
C7_Witness ==
  debouncedQuery = <<" ">> /\ nextReq >= 1 /\ movies = <<>> /\ totalPages = 0

\* C8 as stated: with a sort mode other than relevance hasMore is false and
\* loadMore starts no fetch; with relevance and currentPage < totalPages,
\* hasMore is true and loadMore fetches.
C8_Original ==
  (variant = "sort" /\ mounted) =>
    /\ sortBy # "relevance" => (~HasMore /\ ~LoadMoreStarts)
    /\ (sortBy = "relevance" /\ currentPage < totalPages) => (HasMore /\ LoadMoreStarts)

\* C8, amended: with a sort mode other than relevance hasMore is false and
\* neither loadMore nor the scroll handler starts a fetch; with relevance and
\* currentPage < totalPages hasMore is true, and loadMore fetches page
\* currentPage + 1 provided loading is false and the debounced query is not
\* empty or whitespace-only.
C8_SortSuppressesLoadMore ==
  /\ [] ( (variant = "sort" /\ mounted) =>
            /\ sortBy # "relevance" => (~HasMore /\ ~LoadMoreStarts)
            /\ (sortBy = "relevance" /\ currentPage < totalPages) =>
                 /\ HasMore
                 /\ (~loading /\ ~WhitespaceOnly(debouncedQuery)) => LoadMoreStarts )
  /\ [][ variant = "sort" =>
           \A r \in Started :
             r.isLoadMore => (sortBy = "relevance" /\ r.page = currentPage + 1) ]_vars

\* pages remain while a sort mode other than relevance is selected
C8_Witness ==
  variant = "sort" /\ mounted /\ sortBy # "relevance" /\ currentPage < totalPages
    /\ ~loading /\ debouncedQuery = <<"a">>

\* C9: a page-1 fetch is started only when the query has been unchanged for
\* the whole debounce window, and for the value the query then has; when the
\* window of a burst of edits runs out on a new non-blank value, exactly one
\* fetch, for that value, is started.
C9_OneFetchPerBurst ==
  [][ /\ \A r \in Started :
           ~r.isLoadMore => (idle >= DebounceWait /\ r.query = Trim(query))
      /\ ( /\ timer = 0
           /\ timer' = -1
           /\ mounted'
           /\ query # debouncedQuery
           /\ ~WhitespaceOnly(query) ) =>
           /\ Cardinality(Started) = 1
           /\ \A r \in Started : r.query = Trim(query) /\ r.page = 1 ]_vars

\* the requests in flight whose controller has not been aborted
Outstanding == { r \in inflight : r.id \notin aborted }

\* C25: loading is true in every state in which a search request that has not
\* been cancelled is still in flight; no completion of another request and no
\* query clear sets loading to false while such a request is outstanding.
C25_LoadingWhileOutstanding ==
  (mounted /\ Outstanding # {}) => loading

\* the debounced query is empty since it was cleared
Cleared == debouncedQuery = <<>>

\* C26: once the debounced query has been cleared to empty, movies stays empty
\* and totalPages and totalResults stay 0 until the query becomes non-empty
\* again, also when the response of a request started before the clear
\* arrives afterwards.
C26_ClearedStaysEmpty ==
  (mounted /\ Cleared) => (movies = <<>> /\ totalPages = 0 /\ totalResults = 0)

(***************************************************************************)
(* Claims about the watchlist service.                                     *)
(***************************************************************************)
StoredIds == { Load.items[i].movieId : i \in 1..Len(Load.items) }

\* C11: add of a movieId that is not stored returns true and afterwards the
\* stored items are the new item (that movieId, addedAt = the current ISO
\* timestamp) followed by the items stored before, in their order; so the
\* stored items are always ordered newest-first.
NewestFirst(items) ==
  \A i, j \in 1..Len(items) : i < j => items[i].addedAt[2] > items[j].addedAt[2]

C11_AddPrepends ==
  /\ [][ (wlOp'.name = "add" /\ wlOp'.arg \notin StoredIds) =>
           /\ wlRet' = TRUE
           /\ Load'.items =
                Unshift([movieId |-> wlOp'.arg, addedAt |-> ToISOString(wlClock)],
                        Load.items) ]_vars
  /\ [] NewestFirst(Load.items)

\* C10: add of a movieId that is already stored, and remove of a movieId that
\* is not stored, return false and leave the stored document as it was (its
\* items, their order and their number).
C10_NoEffectWritesReturnFalse ==
  [][ /\ (wlOp'.name = "add" /\ wlOp'.arg \in StoredIds) =>
           (wlRet' = FALSE /\ lsValue' = lsValue /\ Load' = Load)
      /\ (wlOp'.name = "remove" /\ wlOp'.arg \notin StoredIds) =>
           (wlRet' = FALSE /\ lsValue' = lsValue /\ Load' = Load) ]_vars

\* add was called for the older of two stored movies and returned false
C10_Witness ==
  /\ wlOp.name = "add"
  /\ wlRet = FALSE
  /\ Len(Load.items) = 2
  /\ Load.items[2].movieId = wlOp.arg

\* C13: the document an add, remove or clear writes is the document load()
\* returns afterwards (same items, same order, same version), and writing
\* the loaded document again and loading it returns the same document.
Written ==
  IF wlOp'.name = "add"
    THEN [Load EXCEPT !.items =
            Unshift([movieId |-> wlOp'.arg, addedAt |-> ToISOString(wlClock)],
                    Load.items)]
  ELSE IF wlOp'.name = "remove"
    THEN [Load EXCEPT !.items = FilterOut(Load.items, wlOp'.arg)]
  ELSE GetEmptyData

Rejected ==
  \/ lsValue.kind \in {"null", "empty", "garbage"}
  \/ lsValue \in {JsonNull, JsonNoItems}

C16_NeverThrows ==
  /\ ~wlThrew
  /\ (storageBlocked \/ Rejected) => Load = GetEmptyData

(***************************************************************************)
(* Claims about the watchlist store.                                       *)
(***************************************************************************)
NoDuplicateIds(items) ==
  \A i, j \in 1..Len(items) : items[i].movieId = items[j].movieId => i = j

\* C12: no two items of the stored document, and no two items of the store,
\* have the same movieId (the documents the store starts from have none).
C12_UniqueMovieIds ==
  NoDuplicateIds(Load.items) /\ NoDuplicateIds(storeItems)

\* addToWatchlist was refused for a movie that is one of two in the store
C12_Witness ==
  /\ storeOp.name = "addToWatchlist"
  /\ storeRet = FALSE
  /\ Len(storeItems) = 2
  /\ Len(Load.items) = 2
  /\ ContainsMovie(storeItems, storeOp.arg)

\* C14: toggleWatchlist(movieId) returns true exactly when the movie is among
\* the store's items after the call.
C14_ToggleReportsMembership ==
  [][ storeOp'.name = "toggleWatchlist" =>
        (storeRet' = TRUE <=> ContainsMovie(storeItems', storeOp'.arg)) ]_vars

\* C15: the store's items are the items of the persisted document, in the
\* same order, and count is their number.
C15_StoreMirrorsStorage ==
  storeItems = Load.items /\ storeCount = Len(storeItems)

(***************************************************************************)
(* Claims about the API client.                                            *)
(***************************************************************************)
\* C17: when fetch resolved to a response whose status is not 2xx, fetchAPI
\* threw an APIError with the status and the statusText of the response and
\* the message "API request failed: " followed by the statusText; it
\* returned no data.
C17_Non2xxThrowsAPIError ==
  ( /\ apiPhase = "done"
    /\ apiResponse.kind = "response"
    /\ (apiResponse.status < 200 \/ apiResponse.status > 299) ) =>
      /\ apiResult.kind = "thrown"
      /\ apiResult.error.name = "APIError"
      /\ apiResult.error.status = apiResponse.status
      /\ apiResult.error.statusText = apiResponse.statusText
      /\ apiResult.error.message = "API request failed: " \o apiResponse.statusText

\* a 304 with an empty statusText and a body that parses was answered
C17_Witness ==
  /\ apiPhase = "done"
  /\ apiResponse.kind = "response"
  /\ apiResponse.status = 304
  /\ apiResponse.statusText = ""
  /\ apiResponse.body.kind = "json"
  /\ apiResult.kind = "thrown"

(***************************************************************************)
(* Claims about the adapter.                                               *)
(***************************************************************************)
\* the places in the results whose movie has a poster
WithPoster == { i \in 1..Len(listResponse.results) :
                  listResponse.results[i].poster_path # NullValue }

\* C18: the movies toMovieList returns are the movies of the response whose
\* poster_path is not null, each once and in the order of the response, and
\* page, totalPages and totalResults are the response's page, total_pages
\* and total_results.
C18_PosterFilterKeepsPagination ==
  movieList # Nothing =>
    /\ Len(movieList.movies) = Cardinality(WithPoster)
    /\ \A i \in WithPoster :
         LET k == Cardinality({ j \in WithPoster : j <= i })
         IN /\ movieList.movies[k].id = listResponse.results[i].id
            /\ movieList.movies[k].posterUrl =
                 ImageBaseUrl \o listResponse.results[i].poster_path.str
    /\ movieList.page = listResponse.page
    /\ movieList.totalPages = listResponse.total_pages
    /\ movieList.totalResults = listResponse.total_results

\* a response whose middle movie has no poster was adapted: two movies are
\* left and the pagination fields say five pages
C18_Witness ==
  /\ movieList # Nothing
  /\ Len(listResponse.results) = 3
  /\ WithPoster = {1, 3}
  /\ listResponse.results[1].id # listResponse.results[3].id
  /\ Len(movieList.movies) = 2
  /\ movieList.totalPages = 5

(***************************************************************************)
(* Claims about the detail hook.                                           *)
(***************************************************************************)
\* C19: for a movieId that is NaN, 0 or negative no request is started, and
\* while the hook is rendered with such a movieId error is set and loading
\* is false, whatever responses of earlier requests arrive.
C19_InvalidIdRejectedLocally ==
  /\ [][ \A r \in detailInflight' \ detailInflight :
           ~r.movieId.nan /\ r.movieId.n > 0 ]_vars
  /\ [] ( (detailMounted /\ (detailId.nan \/ detailId.n <= 0)) =>
            (detailError # "null" /\ ~detailLoading) )

\* the id changed to a negative number while the request of a valid id was
\* in flight
C19_Witness ==
  /\ detailMounted
  /\ detailId = Num(-1)
  /\ detailInflight # {}
  /\ detailError = "Invalid movie ID"
  /\ ~detailLoading

(***************************************************************************)
(* Claims about the reviews hook.                                          *)
(***************************************************************************)
\* the review requests started by this step
ReviewsStarted == reviewsInflight' \ reviewsInflight

\* a fetch starts only when no load is in flight and currentPage < totalPages,
\* and it asks for page currentPage + 1, which is no page beyond totalPages
GuardedStart ==
  \A r \in ReviewsStarted :
    /\ ~reviewsLoading
    /\ reviewsInflight = {}
    /\ reviewsPage < reviewsTotalPages
    /\ r.page = reviewsPage + 1
    /\ r.page <= reviewsTotalPages

OneInFlight == Cardinality(reviewsInflight) <= 1

\* of the requests started since the state was last reset, no two ask for the
\* same page
NoPageTwice ==
  \A i, j \in 1..Len(reviewsLog) :
    i < j => reviewsLog[i].page # reviewsLog[j].page

\* a page is asked for again only when the earlier fetch of it failed
NoPageTwiceUnlessFailed ==
  \A i, j \in 1..Len(reviewsLog) :
    (i < j /\ reviewsLog[i].page = reviewsLog[j].page) => reviewsLog[i].outcome = "failed"

\* C20 as stated: loadMore starts a fetch, of page currentPage + 1, only when
\* no review load is in flight and currentPage < totalPages; so two review
\* fetches are never in flight at once, the same page is never fetched twice,
\* and no page beyond totalPages is requested.
C20_GuardedLoadMore ==
  /\ [][GuardedStart]_vars
  /\ [](OneInFlight /\ NoPageTwice)

\* C20 amended: as above, except that a page whose fetch failed is fetched
\* again by the next loadMore; a page is never fetched again while its fetch is
\* pending or after it was loaded.
C20_GuardedLoadMoreRetry ==
  /\ [][GuardedStart]_vars
  /\ [](OneInFlight /\ NoPageTwiceUnlessFailed)

\* loadMore was called while a load was in flight and started nothing, after an
\* earlier page had been loaded
C20_Witness ==
  /\ reviewsLoading
  /\ Len(reviewsLog) = 2
  /\ reviewsLog[1].outcome = "loaded"
  /\ reviewsLog[2].outcome = "pending"
  /\ reviewsLog[2].page = reviewsLog[1].page + 1
  /\ ReviewsBlocked

\* C21: when the movie id given to the reviews hook changes, reviews, current
\* page and total pages take the initial values supplied for the new movie,
\* error becomes null and loading becomes false.
C21_ResetOnMovieChange ==
  [][ reviewsMovieId' # reviewsMovieId =>
        /\ reviews' = reviewsInitial'.reviews
        /\ reviewsPage' = reviewsInitial'.page
        /\ reviewsTotalPages' = reviewsInitial'.totalPages
        /\ reviewsError' = "null"
        /\ reviewsLoading' = FALSE ]_vars


(***************************************************************************)
(* Claims about the list-loading hook.                                     *)
(***************************************************************************)
\* the category fetches that end in this step
ListEnded == listInflight \ listInflight'

\* C22: every category fetch ends, on success and on failure alike, by
\* setting loading to false: on success movies is the fetched list, on failure
\* error is an Error object; and once no fetch is outstanding the hook is
\* never left in the loading state.
C22_FetchEndsLoading ==
  /\ [][ \A r \in ListEnded :
           /\ listLoading' = FALSE
           /\ listLog'[r.id].outcome = "loaded" => listMovies' = listLog'[r.id].result
           /\ listLog'[r.id].outcome = "failed" =>
                listError' \in ErrorInstances \cup {"Unknown error"} ]_vars
  /\ []((listMounted /\ listInflight = {}) => ~listLoading)

\* two fetches have ended, one loaded and one failed, and none is outstanding
C22_Witness ==
  /\ listMounted
  /\ listInflight = {}
  /\ ~listLoading
  /\ \E i, j \in 1..Len(listLog) :
       listLog[i].outcome = "loaded" /\ listLog[j].outcome = "failed"


\* the fetch started last, which is the fetch of the current category
LastFetch == listLog[Len(listLog)]

\* C27: when the category changes while a fetch is in flight and both fetches
\* then complete in either order, movies ends as the list of the current
\* category and error as the outcome of the current category's fetch; a
\* response of the earlier category never overwrites them.
C27_CurrentCategoryWins ==
  (listMounted /\ listInflight = {} /\ Len(listLog) >= 2) =>
     /\ LastFetch.outcome = "loaded" =>
          (listMovies = LastFetch.result /\ listError = "null")
     /\ LastFetch.outcome = "failed" => listError \in ErrorInstances


(***************************************************************************)
(* Claims about the search page.                                           *)
(***************************************************************************)
\* C23: after a search request failed and the search hook holds an error, the
\* user-triggered retry re-issues a search request for the same query.
C23_RetryReissues ==
  (retried.pending /\ ~IsBlank(retried.query)) ~> ~retried.pending


(***************************************************************************)
(* Claims about the cast of an adapted movie detail.                       *)
(***************************************************************************)
InBillingOrder(members) ==
  \A i \in 1..(Len(members) - 1) : members[i].order <= members[i + 1].order

\* C24: for every upstream cast list, sorted or not, the cast of an adapted
\* movie detail has at most 20 entries and is in non-decreasing billing order.
C24_CastCappedAndOrdered ==
  /\ Len(cast) <= CastLimit
  /\ InBillingOrder(cast)


(***************************************************************************)
(* More claims about the reviews hook.                                     *)
(***************************************************************************)
\* the responses that arrive in this step for a movie other than the hook's
StaleArrivals == { r \in reviewsInflight \ reviewsInflight' : r.movieId # reviewsMovieId }

\* C28: a review page that was requested for one movie and arrives after the
\* hook's movie id changed to another movie is never appended to the new
\* movie's review list and never changes its current page or total pages.
C28_StaleReviewsDiscarded ==
  [][ StaleArrivals # {} =>
        UNCHANGED <<reviews, reviewsPage, reviewsTotalPages>> ]_vars


(***************************************************************************)
(* More claims about the detail hook.                                      *)
(***************************************************************************)
\* C29: whenever the detail hook reports an error with loading false, its
\* movie is null: neither a failed fetch nor a change of the id from a loaded
\* valid id to an invalid id leaves the previously loaded record exposed next
\* to the error.
C29_ErrorHidesMovie ==
  (detailMounted /\ detailError # "null" /\ ~detailLoading) => detailMovie = Nothing


(***************************************************************************)
(* Claims about the watchlist under failing writes.                        *)
(***************************************************************************)
\* C30: WatchlistService.add and the store's addToWatchlist return true only if
\* the stored document contains the movieId after the call, also when the
\* storage write fails.
C30_TrueOnlyIfStored ==
  [][ /\ (storeOp'.name = "addToWatchlist" /\ storeRet' = TRUE) =>
           storeOp'.arg \in StoredIds'
      /\ (wlOp'.name = "add" /\ wlRet' = TRUE /\ ~wlThrew') =>
           wlOp'.arg \in StoredIds' ]_vars

====
